---- MODULE Spec2Model ----
(***************************************************************************)
(* The mode / shortcut / command state machine of the mg command bar       *)
(* (src/app/mod.rs, src/app/shortcut.rs, src/app/command.rs).              *)
(*                                                                         *)
(* The handlers of the widget are operators from a state record to a state *)
(* record, composed in the order of the statements of the Rust code; each  *)
(* action of the next-state relation is one event of the host event loop   *)
(* (a key press, an entry activation, a message taken from the relm        *)
(* stream, an input request, the start-up configuration batch).            *)
(***************************************************************************)
EXTENDS Integers, Sequences, FiniteSets, TLC

VARIABLES
    user_modes,            \* the modes the caller declares: (prefix, name) pairs
    registry,              \* Model.modes: None until parse_config has built it
    current_mode,          \* Model.current_mode
    current_command_mode,  \* Model.current_command_mode: the identifier character
    current_shortcut,      \* Model.current_shortcut: the shortcut buffer
    entry_shown,           \* Model.entry_shown / status_bar.entry_shown()
    completion_shown,      \* Model.completion_shown
    message,               \* Model.message
    color,                 \* the colors of the status bar
    timers,                \* the hide timers that have not fired, oldest first
    mode_label,            \* Model.mode_label
    mappings,              \* Model.mappings: mode name -> (key sequence -> action)
    input_callback,        \* Model.input_callback: None or Some(callback)
    choices,               \* Model.choices
    shortcuts,             \* Model.shortcuts: choice shortcuts, Key -> answer
    answer,                \* Model.answer
    settings,              \* Model.settings
    msgs,                  \* messages returned by handlers, not yet handled by update
    main_loop,             \* nested gtk main loop of a blocking request
    started,               \* init_view has run
    panicked,              \* the program has hit a panic (unreachable!, assert!)
    cb_log,                \* history: answers the callback of the current request got
    cb_stored,             \* history: a callback ran in Input mode while still stored
    escapes,               \* history: Escape presses that cancel the current request
    fired,                 \* history: the hide timer the last event fired, if any
    run                    \* history: keys handed to handle_shortcut in a row

vars == <<user_modes, registry,
          current_mode, current_command_mode, current_shortcut, entry_shown,
          completion_shown, message, color, timers, mode_label, mappings,
          input_callback, choices, shortcuts, answer, settings, msgs, main_loop,
          started, panicked, cb_log, cb_stored, escapes, fired, run>>

----------------------------------------------------------------------------
(* Bounds of the model *)

\* messages in flight on the relm stream
MaxMsgs == 2
\* callback invocations recorded for one request
MaxCalls == 2
\* keys recorded in one run of key presses
MaxRun == 3
\* hide timers that have not fired
MaxTimers == 3
\* modes a caller declares
MaxUserModes == 2

----------------------------------------------------------------------------
(* Option values *)

None == <<>>
Some(x) == <<x>>

\* the characters of text, as one-character strings
ENTER_MARKER == <<"<", "E", "n", "t", "e", "r", ">">>

----------------------------------------------------------------------------
(* Modes *)

NORMAL_MODE == "normal"
COMMAND_MODE == "command"
INPUT_MODE == "input"
BLOCKING_INPUT_MODE == "blocking-input"
\* a mode declared by the caller (user_modes), prefix "i"
INSERT_MODE == "insert"

BuiltinModes == {NORMAL_MODE, COMMAND_MODE, INPUT_MODE, BLOCKING_INPUT_MODE}

\* the modes the caller of the model declares
UserModes == << <<"i", INSERT_MODE>> >>

\* the lists of modes a caller can declare
UserModeLists ==
    UNION {[1..n -> {"n", "c", "i", "v"} \X {INSERT_MODE, "visual"}] :
            n \in 0..MaxUserModes}

\* modes.insert(key, value): the registry with key set to value
modes_insert(registry_, key, value) ==
    [p \in DOMAIN registry_ \cup {key} |-> IF p = key THEN value ELSE registry_[p]]

\* for &(key, value) in user_modes { modes.insert(key, value); }
RECURSIVE insert_user_modes(_, _)
insert_user_modes(registry_, declared) ==
    IF declared = <<>> THEN registry_
    ELSE insert_user_modes(
            modes_insert(registry_, Head(declared)[1], Head(declared)[2]),
            Tail(declared))

\* a slip in parse_config: the built-in prefixes are inserted with no assert
parse_config_no_assert(declared) ==
    [panicked |-> FALSE,
     modes |-> modes_insert(modes_insert(insert_user_modes(<<>>, declared),
                                         "n", NORMAL_MODE), "c", COMMAND_MODE)]

\* Parse a configuration file: the mode registry. assert!(modes.insert("n",
\* NORMAL_MODE).is_none()) panics when the prefix is in the registry already.
parse_config(declared) ==
    LET declared_modes == insert_user_modes(<<>>, declared)
    IN  IF "n" \in DOMAIN declared_modes
        THEN [panicked |-> TRUE, modes |-> <<>>]
        ELSE LET with_n == modes_insert(declared_modes, "n", NORMAL_MODE)
             IN  IF "c" \in DOMAIN with_n
                 THEN [panicked |-> TRUE, modes |-> <<>>]
                 ELSE [panicked |-> FALSE,
                       modes |-> modes_insert(with_n, "c", COMMAND_MODE)]

\* the mode registry of the model, prefix -> mode name
modes == parse_config(UserModes).modes

----------------------------------------------------------------------------
(* Keys *)

\* gdk key values
KEY == [g |-> 103, y |-> 121, n |-> 110, colon |-> 58, slash |-> 47,
        Escape |-> 65307, Tab |-> 65289, ISO_Left_Tab |-> 65056,
        Shift_L |-> 65505]

\* the default command identifier
DEFAULT_IDENTIFIER == ":"

EventKey(keyval, control) == [keyval |-> keyval, control |-> control]

\* the key events the host delivers
KeyEvents == {EventKey(KEY.g, FALSE), EventKey(KEY.y, FALSE),
              EventKey(KEY.colon, FALSE), EventKey(KEY.slash, FALSE),
              EventKey(KEY.Escape, FALSE), EventKey(KEY.Shift_L, FALSE),
              EventKey(KEY.g, TRUE)}

\* a logical key (mg_settings::key::Key): a key symbol, possibly under Control
Key(sym, ctrl) == [sym |-> sym, ctrl |-> ctrl]
K_g == Key(KEY.g, FALSE)
K_y == Key(KEY.y, FALSE)
K_Esc == Key(KEY.Escape, FALSE)
K_Cg == Key(KEY.g, TRUE)
K_colon == Key(KEY.colon, FALSE)
K_slash == Key(KEY.slash, FALSE)

\* key_converter::gdk_key_to_key: a modifier key has no logical key
gdk_key_to_key(keyval, control) ==
    IF keyval = KEY.Shift_L THEN None ELSE Some(Key(keyval, control))

\* the character of a code point, as a one-character string
Chr(code) ==
    CASE code = 103 -> "g"
      [] code = 121 -> "y"
      [] code = 110 -> "n"
      [] code = 58 -> ":"
      [] code = 47 -> "/"
      [] code = 27 -> "U+001B"
      [] code = 225 -> "U+00E1"
      [] code = 65307 -> "U+FF1B"
      [] code = 65505 -> "U+FFE1"
      [] OTHER -> "U+FFFD"

\* keyval as u8 as char: the low byte of the key value
as_u8_char(keyval) == Chr(keyval % 256)

\* COMM::is_identifier of the host's special commands: '/' starts one
is_identifier(character) == character = "/"

\* char::from_u32: every key value of KEY is a Unicode scalar value
char_from_u32(keyval) == Some(Chr(keyval))

----------------------------------------------------------------------------
(* Commands, actions and the command-line parser *)

\* mg_settings::Command
App(name) == [type |-> "App", name |-> name]
Custom(name) == [type |-> "Custom", name |-> name]
Map(mode, keys, action) ==
    [type |-> "Map", mode |-> mode, keys |-> keys, action |-> action]
Unmap(mode, keys) == [type |-> "Unmap", mode |-> mode, keys |-> keys]
Set(name, value) == [type |-> "Set", name |-> name, value |-> value]

\* the application commands
COMPLETE_NEXT_COMMAND == "complete-next"
COMPLETE_PREVIOUS_COMMAND == "complete-previous"
ENTRY_DELETE_NEXT_CHAR == "entry-delete-next-char"
ENTRY_DELETE_NEXT_WORD == "entry-delete-next-word"
ENTRY_DELETE_PREVIOUS_WORD == "entry-delete-previous-word"
ENTRY_END == "entry-end"
ENTRY_NEXT_CHAR == "entry-next-char"
ENTRY_NEXT_WORD == "entry-next-word"
ENTRY_PREVIOUS_CHAR == "entry-previous-char"
ENTRY_PREVIOUS_WORD == "entry-previous-word"
ENTRY_SMART_HOME == "entry-smart-home"

\* parse_config: Config.application_commands, the names the parser accepts as
\* application commands
application_commands ==
    <<COMPLETE_NEXT_COMMAND, COMPLETE_PREVIOUS_COMMAND, ENTRY_DELETE_NEXT_CHAR,
      ENTRY_DELETE_NEXT_WORD, ENTRY_DELETE_PREVIOUS_WORD, ENTRY_END,
      ENTRY_NEXT_CHAR, ENTRY_NEXT_WORD, ENTRY_PREVIOUS_CHAR,
      ENTRY_PREVIOUS_WORD, ENTRY_SMART_HOME>>

\* action strings bound by map commands
ACTION_NEXT == <<"a">>
ACTION_TOP == <<"t">>
ACTION_UP == <<"u">>
ACTION_EDIT == <<":", "e">>
ACTION_SET == <<":", "s">> \o ENTER_MARKER

\* ShortcutCommand
Complete(text) == [kind |-> "Complete", text |-> text]
Incomplete(text) == [kind |-> "Incomplete", text |-> text]

\* str::find: the first index (from 1) at which pattern starts in text, 0 if none
Find(text, pattern) ==
    LET hits == {i \in 1..(Len(text) - Len(pattern) + 1) :
                    SubSeq(text, i, i + Len(pattern) - 1) = pattern}
    IN  IF hits = {} THEN 0 ELSE CHOOSE i \in hits : \A j \in hits : i <= j

\* a slip in action_to_command: the slice of a complete command starts at the
\* identifier
action_to_command_from_identifier(action) ==
    IF Len(action) > 0 /\ action[1] = ":"
    THEN LET index == Find(action, ENTER_MARKER)
         IN  IF index # 0
             THEN Complete(SubSeq(action, 1, index - 1))
             ELSE Incomplete(SubSeq(action, 2, Len(action)))
    ELSE Complete(action)

\* Convert an action String to a command String.
action_to_command(action) ==
    IF Len(action) > 0 /\ action[1] = ":"
    THEN LET index == Find(action, ENTER_MARKER)
         IN  IF index # 0
             THEN Complete(SubSeq(action, 2, index - 1))
             ELSE Incomplete(SubSeq(action, 2, Len(action)))
    ELSE Complete(action)

ParseResult(commands, errors) == [commands |-> commands, errors |-> errors]

\* mg_settings::errors: a parse error, with its type and the tokens it names,
\* and an error of another kind, with its text
ParseError(typ, unexpected, expected) ==
    [kind |-> "Parse", typ |-> typ, unexpected |-> unexpected,
     expected |-> expected]
OtherError(text) == [kind |-> "Msg", text |-> text]

\* the characters of a text as a string
RECURSIVE Text(_)
Text(chars) == IF chars = <<>> THEN "" ELSE Head(chars) \o Text(Tail(chars))

\* settings_parser.parse_line: the command lines the model types or binds
parse_line(text) ==
    CASE text = <<"t">> -> ParseResult(<<Custom("t")>>, <<>>)
      [] text = <<"u">> -> ParseResult(<<Custom("u")>>, <<>>)
      [] text = <<"s">> -> ParseResult(<<Set("foo", "bar")>>, <<>>)
      [] text = <<"b">> -> ParseResult(<<Set("foo", "???")>>, <<>>)
      [] text = <<"a">> -> ParseResult(<<App(application_commands[1])>>, <<>>)
      [] text = <<"h">> -> ParseResult(<<App(application_commands[11])>>, <<>>)
      [] text = <<>> -> ParseResult(<<>>, <<ParseError("NoCommand", "", "")>>)
      [] OTHER ->
            ParseResult(<<>>, <<ParseError("UnknownCommand", Text(text), "")>>)

\* a slip in to_variant: every value coerces
to_variant_any(name, value) == [ok |-> TRUE, variant |-> value]

\* SETT::to_variant: the value "bar" is the one that coerces
to_variant(name, value) ==
    IF value = "bar" THEN [ok |-> TRUE, variant |-> value]
    ELSE [ok |-> FALSE, variant |-> ""]

\* COMM::identifier_to_command: the special command accepts a non-empty text
identifier_to_command(identifier, command) ==
    IF command # <<>> THEN [ok |-> TRUE] ELSE [ok |-> FALSE]

\* the configuration batches the start-up parse can produce
ConfigBatches ==
    << <<Map("n", <<K_g>>, ACTION_UP), Map("n", <<K_g>>, ACTION_TOP),
         Map("n", <<K_g, K_g, K_g>>, ACTION_UP), Map("n", <<K_y>>, ACTION_UP),
         Unmap("n", <<K_y>>), Map("c", <<K_g, K_g>>, ACTION_SET),
         Unmap("i", <<K_y>>)>>,
       <<Map("n", <<K_g, K_g>>, ACTION_UP), Map("n", <<K_Esc, K_g>>, ACTION_TOP),
         Map("c", <<K_g>>, ACTION_EDIT), Map("c", <<K_Cg, K_Cg>>, ACTION_TOP),
         Map("n", <<K_colon>>, ACTION_TOP), Map("n", <<K_slash>>, ACTION_UP),
         Set("foo", "???")>>,
       <<Map("i", <<K_Esc, K_g>>, ACTION_TOP), Map("i", <<K_y>>, ACTION_EDIT),
         Map("n", <<K_y, K_g, K_g>>, ACTION_SET), Map("c", <<K_Cg>>, ACTION_NEXT),
         Set("foo", "bar")>>,
       <<Set("foo", "bar"), Set("foo", "???"), Map("n", <<K_g, K_g>>, ACTION_TOP)>> >>

\* the parse errors of a configuration file
ConfigErrors ==
    <<ParseError("UnknownCommand", "foo", ""),
      ParseError("Parse", "1", "identifier"),
      ParseError("MissingArgument", "", ""),
      ParseError("NoCommand", "", "")>>

\* the results of the start-up parse: the second file has lines in error
ConfigResults ==
    { ParseResult(ConfigBatches[i], IF i = 2 THEN ConfigErrors ELSE <<>>) :
        i \in DOMAIN ConfigBatches }

\* the texts the user activates the entry with
ActivateInputs == {None, Some(<<"t">>), Some(<<"s">>), Some(<<"b">>), Some(<<>>)}

\* the input requests of the host: blocking or not, the callback, the choices,
\* the choice shortcuts, and whether the entry is shown for the answer
InputRequest(blocking, callback, chars, keys, show) ==
    [blocking |-> blocking, callback |-> callback, choices |-> chars,
     shortcuts |-> keys, show |-> show]
Requests ==
    { InputRequest(FALSE, Some("callback"), {"y", "n"}, <<>>, FALSE),
      InputRequest(FALSE, Some("callback"), {"y", "n"}, [k \in {K_y} |-> <<"n">>], FALSE),
      InputRequest(FALSE, Some("callback"), {},
                   [k \in {K_Cg, K_Esc} |-> <<"y">>], TRUE),
      InputRequest(TRUE, None, {"y", "n"}, <<>>, FALSE),
      InputRequest(TRUE, Some("callback"), {}, <<>>, TRUE) }

----------------------------------------------------------------------------
(* Messages of the widget *)

Msg(type, mode) == [type |-> type, mode |-> mode]
EnterCommandMode == Msg("EnterCommandMode", "")
EnterNormalMode == Msg("EnterNormalMode", "")
EnterNormalModeAndReset == Msg("EnterNormalModeAndReset", "")
SetMode(mode) == Msg("SetMode", mode)
AppClose == Msg("AppClose", "")

\* the messages of the hide timers carry the text that was displayed; own
\* records that no message was displayed or cleared since the call that started
\* the timer
HideColoredMessage(text) ==
    [type |-> "HideColoredMessage", mode |-> "", text |-> text, own |-> TRUE]
HideInfo(text) ==
    [type |-> "HideInfo", mode |-> "", text |-> text, own |-> TRUE]

\* the texts the host displays
Texts == {"a", "b"}

\* the messages the host application sends to the widget
HostMsgs == {EnterNormalMode} \cup {SetMode(modes[p]) : p \in DOMAIN modes}

----------------------------------------------------------------------------
(* The state the handlers work on: the fields of Model, and what the       *)
(* handler did (appended the key, resolved a binding, dispatched a command, *)
(* set the text of the entry)                                               *)

State ==
    [current_mode |-> current_mode,
     current_command_mode |-> current_command_mode,
     current_shortcut |-> current_shortcut,
     entry_shown |-> entry_shown,
     completion_shown |-> completion_shown,
     message |-> message,
     color |-> color,
     timers |-> timers,
     mode_label |-> mode_label,
     mappings |-> mappings,
     input_callback |-> input_callback,
     choices |-> choices,
     shortcuts |-> shortcuts,
     answer |-> answer,
     settings |-> settings,
     msgs |-> msgs,
     main_loop |-> main_loop,
     cb_log |-> cb_log,
     cb_stored |-> cb_stored,
     panicked |-> panicked,
     fired |-> None,
     input |-> None,
     appended |-> FALSE,
     resolved |-> <<>>,
     dispatched |-> <<>>,
     applied |-> <<>>,
     errors |-> <<>>,
     changed |-> <<>>]

\* relm: the message a handler returns is put on the stream
emit(s, msg) == [s EXCEPT !.msgs = Append(@, msg)]

\* the stored callback is called with an answer; cb_stored records that it ran
\* in Input mode while it was still stored
call_callback(s, value) ==
    [s EXCEPT !.cb_log = Append(@, value),
              !.cb_stored = @ \/ (s.input_callback # None /\ s.current_mode = INPUT_MODE)]

\* gtk::main_quit: the innermost main loop returns
main_quit(s) ==
    [s EXCEPT !.main_loop = IF @ = "running" THEN "quit" ELSE @]

----------------------------------------------------------------------------
(* src/app/shortcut.rs and the mode operations of src/app/mod.rs *)

\* Add the key to the current shortcut.
add_to_shortcut(s, key) ==
    [s EXCEPT !.current_shortcut = Append(@, key), !.appended = TRUE]

\* a slip in clear_shortcut: the label is updated, the buffer is kept
clear_shortcut_keep(s) == s

\* Clear the current shortcut buffer.
clear_shortcut(s) == [s EXCEPT !.current_shortcut = <<>>]

\* Hide the command entry and the completion view.
hide_entry_and_completion(s) ==
    [s EXCEPT !.completion_shown = FALSE, !.entry_shown = FALSE]

show_entry(s) == [s EXCEPT !.entry_shown = TRUE]

\* the message is assigned: the timers that wait are those of earlier calls
set_message(s, text) ==
    [s EXCEPT !.message = text,
              !.timers = [i \in DOMAIN @ |-> [@[i] EXCEPT !.own = FALSE]]]

\* Reset the background and foreground colors of the status bar.
reset_colors(s) == [s EXCEPT !.color = "normal"]

\* Handle the escape event.
reset(s) ==
    clear_shortcut(set_message(hide_entry_and_completion(reset_colors(s)), ""))

\* Set the current (special) command identifier.
set_current_identifier(s, identifier) ==
    [s EXCEPT !.current_command_mode = identifier]

\* a slip in set_mode: the label is not updated
set_mode_no_label(s, mode) == [s EXCEPT !.current_mode = mode]

\* Set the current mode.
set_mode(s, mode) ==
    [s EXCEPT !.current_mode = mode,
              !.mode_label = IF mode \notin BuiltinModes THEN mode ELSE ""]

\* a slip in return_to_normal_mode: the identifier is left as it is
return_to_normal_mode_keep_identifier(s) ==
    set_mode(hide_entry_and_completion(s), NORMAL_MODE)

return_to_normal_mode(s) ==
    set_current_identifier(
        set_mode(hide_entry_and_completion(s), NORMAL_MODE), DEFAULT_IDENTIFIER)

\* Show an error to the user.
error(s, text) ==
    [set_message(s, text) EXCEPT !.entry_shown = FALSE, !.color = "red",
                                 !.errors = Append(@, text)]

\* relm.connect_exec_ignore_err(timeout, msg): msg is emitted when the timeout
\* of INFO_MESSAGE_DURATION seconds has passed
connect_timeout(s, msg) == [s EXCEPT !.timers = Append(@, msg)]

\* Show an alert message to the user.
alert(s, text) == [set_message(s, text) EXCEPT !.color = "blue"]

\* a slip in hide_colored_message: the message is cleared whatever it is
hide_colored_message_always(s, text) == reset_colors([s EXCEPT !.message = ""])

\* Hide the information message.
hide_colored_message(s, text) ==
    IF s.message = text THEN reset_colors([s EXCEPT !.message = ""]) ELSE s

\* Hide the information message.
hide_info(s, text) ==
    IF s.message = text THEN [s EXCEPT !.message = ""] ELSE s

\* Show an information message to the user for 5 seconds.
info(s, text) ==
    connect_timeout(reset_colors(set_message(s, text)), HideInfo(text))

\* Show a message to the user.
show_message(s, text) == set_message(reset_colors(s), text)

\* Show a warning message to the user for 5 seconds.
warning(s, text) ==
    connect_timeout([set_message(s, text) EXCEPT !.color = "orange"],
                    HideColoredMessage(text))

\* a slip in set_setting: SettingChanged is not emitted
set_setting_silent(s, setting) == [s EXCEPT !.settings = setting]

\* Set a setting value.
set_setting(s, setting) ==
    [s EXCEPT !.settings = setting, !.changed = Append(@, setting)]

\* Input the specified command: the entry is shown with the text of the
\* command, followed by a space when the text has none (the host of the model
\* declares no variable to replace in the text).
input_command(s, command) ==
    LET text == IF \E i \in DOMAIN command : command[i] = " "
                THEN command ELSE command \o <<" ">>
    IN  [show_entry(set_mode(s, COMMAND_MODE)) EXCEPT !.input = Some(text)]

\* unreachable!(), assert!: the program panics
panic(s) == [s EXCEPT !.panicked = TRUE]

\* a slip in app_command: the branch of ENTRY_SMART_HOME and of
\* COMPLETE_NEXT_COMMAND are missing
app_command_missing_branch(s, command) ==
    CASE command = COMPLETE_PREVIOUS_COMMAND -> s
      [] command = ENTRY_DELETE_NEXT_CHAR -> s
      [] command = ENTRY_DELETE_NEXT_WORD -> s
      [] command = ENTRY_DELETE_PREVIOUS_WORD -> s
      [] command = ENTRY_END -> s
      [] command = ENTRY_NEXT_CHAR -> s
      [] command = ENTRY_NEXT_WORD -> s
      [] command = ENTRY_PREVIOUS_CHAR -> s
      [] command = ENTRY_PREVIOUS_WORD -> s
      [] OTHER -> panic(s)

\* Handle an application command: the entry and completion widgets act, which
\* changes no field of the model
app_command(s, command) ==
    CASE command = COMPLETE_NEXT_COMMAND -> s
      [] command = COMPLETE_PREVIOUS_COMMAND -> s
      [] command = ENTRY_DELETE_NEXT_CHAR -> s
      [] command = ENTRY_DELETE_NEXT_WORD -> s
      [] command = ENTRY_DELETE_PREVIOUS_WORD -> s
      [] command = ENTRY_END -> s
      [] command = ENTRY_NEXT_CHAR -> s
      [] command = ENTRY_NEXT_WORD -> s
      [] command = ENTRY_PREVIOUS_CHAR -> s
      [] command = ENTRY_PREVIOUS_WORD -> s
      [] command = ENTRY_SMART_HOME -> s
      [] OTHER -> panic(s)

\* mappings.entry(mode).or_insert_with(HashMap::new): the table of the mode,
\* created empty when the mode has none
entry_or_insert(maps, mode) ==
    [m \in DOMAIN maps \cup {mode} |->
        IF m \in DOMAIN maps THEN maps[m] ELSE <<>>]

\* a slip in insert: a sequence that is bound keeps its action
insert_if_absent(table, keys, action) ==
    [k \in DOMAIN table \cup {keys} |->
        IF k \in DOMAIN table THEN table[k] ELSE action]

\* HashMap::insert
insert(table, keys, action) ==
    [k \in DOMAIN table \cup {keys} |-> IF k = keys THEN action ELSE table[k]]

\* a slip in remove: the table is emptied
remove_all(table, keys) == <<>>

\* HashMap::remove
remove(table, keys) == [k \in DOMAIN table \ {keys} |-> table[k]]

\* Call the callback with the command or show an error if the command cannot be parsed.
call_command(s0, command) ==
    LET s == [s0 EXCEPT !.applied = Append(@, command)]
    IN  CASE command.type = "App" -> app_command(s, command.name)
          [] command.type = "Custom" -> s
          [] command.type = "Map" ->
                LET mode == modes[command.mode]
                    tables == entry_or_insert(s.mappings, mode)
                IN  [s EXCEPT !.mappings =
                        [tables EXCEPT ![mode] = insert(@, command.keys, command.action)]]
          [] command.type = "Set" ->
                LET result == to_variant(command.name, command.value)
                IN  return_to_normal_mode(
                        IF result.ok THEN set_setting(s, result.variant)
                        ELSE error(s, "Error setting value"))
          [] command.type = "Unmap" ->
                LET mode == modes[command.mode]
                    tables == entry_or_insert(s.mappings, mode)
                IN  [s EXCEPT !.mappings =
                        [tables EXCEPT ![mode] = remove(@, command.keys)]]

\* a slip in show_parse_error: NoCommand is shown like the other parse errors
show_parse_error_no_return(s, err) ==
    IF err.kind = "Parse"
    THEN CASE err.typ = "MissingArgument" -> error(s, "Argument required")
           [] err.typ = "NoCommand" -> error(s, "No command")
           [] err.typ = "Parse" ->
                error(s, "Parse error: unexpected " \o err.unexpected
                            \o ", expecting: " \o err.expected)
           [] err.typ = "UnknownCommand" ->
                error(s, "Not a command: " \o err.unexpected)
    ELSE error(s, err.text)

show_parse_error(s, err) ==
    IF err.kind = "Parse"
    THEN CASE err.typ = "MissingArgument" -> error(s, "Argument required")
           [] err.typ = "NoCommand" -> s
           [] err.typ = "Parse" ->
                error(s, "Parse error: unexpected " \o err.unexpected
                            \o ", expecting: " \o err.expected)
           [] err.typ = "UnknownCommand" ->
                error(s, "Not a command: " \o err.unexpected)
    ELSE error(s, err.text)

\* a slip in the loop of execute_commands: it stops at a command that fails
RECURSIVE call_commands_until_error(_, _)
call_commands_until_error(s, commands) ==
    IF commands = <<>> THEN s
    ELSE LET s1 == call_command(s, Head(commands))
         IN  IF s1.errors # s.errors THEN s1
             ELSE call_commands_until_error(s1, Tail(commands))

RECURSIVE call_commands(_, _)
call_commands(s, commands) ==
    IF commands = <<>> THEN s
    ELSE call_commands(call_command(s, Head(commands)), Tail(commands))

RECURSIVE show_parse_errors(_, _)
show_parse_errors(s, errors) ==
    IF errors = <<>> THEN s
    ELSE show_parse_errors(show_parse_error(s, Head(errors)), Tail(errors))

\* Execute the commands and show the errors contained in the parse result.
execute_commands(s, parse_result, activated) ==
    LET s1 == call_commands(s, parse_result.commands)
        s2 == show_parse_errors(s1, parse_result.errors)
    IN  IF activated THEN return_to_normal_mode(s2) ELSE s2

\* Handle a special command activate or key press event.
handle_special_command(s, final, command) ==
    IF identifier_to_command(s.current_command_mode, command).ok
    THEN IF final THEN return_to_normal_mode(s) ELSE s
    ELSE s

\* Handle the command activate event.
handle_command(s, command, activated) ==
    IF command # None
    THEN IF s.current_command_mode = ":"
         THEN execute_commands(s, parse_line(command[1]), activated)
         ELSE handle_special_command(s, TRUE, command[1])
    ELSE s

----------------------------------------------------------------------------
(* Shortcut matching *)

\* starts_with: prefix is a prefix of keys
starts_with(keys, prefix) ==
    Len(prefix) <= Len(keys) /\ SubSeq(keys, 1, Len(prefix)) = prefix

\* the action bound to the current shortcut; the input modes have the same
\* mappings as the command mode
bound_action(s) ==
    LET mode == IF s.current_mode = INPUT_MODE \/ s.current_mode = BLOCKING_INPUT_MODE
                THEN COMMAND_MODE ELSE s.current_mode
    IN  IF mode \in DOMAIN s.mappings /\ s.current_shortcut \in DOMAIN s.mappings[mode]
        THEN Some(s.mappings[mode][s.current_shortcut])
        ELSE None

\* a slip in no_possible_shortcut: every buffer is taken for a dead end
no_possible_shortcut_dead_end(s) == TRUE

\* Check if there are no possible shortcuts.
no_possible_shortcut(s) ==
    IF s.current_mode \in DOMAIN s.mappings
    THEN ~\E key \in DOMAIN s.mappings[s.current_mode] :
            starts_with(key, s.current_shortcut)
    ELSE TRUE

\* a slip in set_dialog_answer: the callback is dropped without being called
set_dialog_answer_no_call(s, value) ==
    LET blocking == s.current_mode = BLOCKING_INPUT_MODE
        should_reset == ~blocking /\ s.input_callback # None
        s1 == IF blocking
              THEN main_quit([s EXCEPT !.answer = Some(value)])
              ELSE IF s.input_callback # None THEN [s EXCEPT !.choices = {}] ELSE s
    IN  [state |-> [s1 EXCEPT !.input_callback = None],
         msg |-> IF should_reset THEN Some(EnterNormalModeAndReset) ELSE None]

\* Set the answer to return to the caller of the dialog.
set_dialog_answer(s, value) ==
    LET blocking == s.current_mode = BLOCKING_INPUT_MODE
        should_reset == ~blocking /\ s.input_callback # None
        s1 == IF blocking
              THEN main_quit([s EXCEPT !.answer = Some(value)])
              ELSE IF s.input_callback # None
                   THEN [call_callback(s, Some(value)) EXCEPT !.choices = {}]
                   ELSE s
    IN  [state |-> [s1 EXCEPT !.input_callback = None],
         msg |-> IF should_reset THEN Some(EnterNormalModeAndReset) ELSE None]

\* the message a handler returns, if any, is emitted
emit_option(s, msg) == IF msg # None THEN emit(s, msg[1]) ELSE s

\* a slip in handle_input_shortcut: no key is taken for a choice shortcut
handle_input_shortcut_miss(s, key) == [state |-> s, hit |-> FALSE]

\* Handle a shortcut in input mode: the state, and whether the key was one
handle_input_shortcut(s, key) ==
    LET k == gdk_key_to_key(key.keyval, key.control)
    IN  IF k # None /\ k[1] \in DOMAIN s.shortcuts
        THEN [state |-> set_dialog_answer(s, s.shortcuts[k[1]]).state, hit |-> TRUE]
        ELSE [state |-> s, hit |-> FALSE]

\* a slip in handle_shortcut: the key is appended whether the entry is shown
\* or not
handle_shortcut_no_gate(s, key, activated) ==
    LET keyval == key.keyval
        k == gdk_key_to_key(keyval, key.control)
    IN  IF k # None
        THEN LET s1 == add_to_shortcut(s, k[1])
                 action == bound_action(s1)
             IN  IF action # None
                 THEN LET s2 == IF ~s1.entry_shown THEN reset(s1) ELSE s1
                          s3 == [clear_shortcut(s2) EXCEPT
                                    !.resolved = Append(@, action[1])]
                          command == action_to_command(action[1])
                      IN  IF command.kind = "Complete"
                          THEN handle_command(
                                  [s3 EXCEPT !.dispatched = Append(@, command.text)],
                                  Some(command.text), activated)
                          ELSE [input_command(s3, command.text) EXCEPT
                                    !.completion_shown = TRUE]
                 ELSE IF no_possible_shortcut(s1)
                      THEN clear_shortcut(IF ~s1.entry_shown THEN reset(s1) ELSE s1)
                      ELSE s1
        ELSE s

\* a slip in handle_shortcut: a dead end resets whether the entry is shown or
\* not
handle_shortcut_always_reset(s, key, activated) ==
    LET keyval == key.keyval
        k == gdk_key_to_key(keyval, key.control)
    IN  IF (~s.entry_shown \/ key.control \/ keyval = KEY.Tab
                \/ keyval = KEY.ISO_Left_Tab) /\ k # None
        THEN LET s1 == add_to_shortcut(s, k[1])
                 action == bound_action(s1)
             IN  IF action # None
                 THEN LET s2 == IF ~s1.entry_shown THEN reset(s1) ELSE s1
                          s3 == [clear_shortcut(s2) EXCEPT
                                    !.resolved = Append(@, action[1])]
                          command == action_to_command(action[1])
                      IN  IF command.kind = "Complete"
                          THEN handle_command(
                                  [s3 EXCEPT !.dispatched = Append(@, command.text)],
                                  Some(command.text), activated)
                          ELSE [input_command(s3, command.text) EXCEPT
                                    !.completion_shown = TRUE]
                 ELSE IF no_possible_shortcut(s1)
                      THEN clear_shortcut(reset(s1))
                      ELSE s1
        ELSE s

\* Handle a possible input of a shortcut. The call of handle_command in
\* shortcut.rs gives the command alone: activated is either value.
handle_shortcut(s, key, activated) ==
    LET keyval == key.keyval
        k == gdk_key_to_key(keyval, key.control)
    IN  IF (~s.entry_shown \/ key.control \/ keyval = KEY.Tab
                \/ keyval = KEY.ISO_Left_Tab) /\ k # None
        THEN LET s1 == add_to_shortcut(s, k[1])
                 action == bound_action(s1)
             IN  IF action # None
                 THEN LET s2 == IF ~s1.entry_shown THEN reset(s1) ELSE s1
                          s3 == [clear_shortcut(s2) EXCEPT
                                    !.resolved = Append(@, action[1])]
                          command == action_to_command(action[1])
                      IN  IF command.kind = "Complete"
                          THEN handle_command(
                                  [s3 EXCEPT !.dispatched = Append(@, command.text)],
                                  Some(command.text), activated)
                          ELSE [input_command(s3, command.text) EXCEPT
                                    !.completion_shown = TRUE]
                 ELSE IF no_possible_shortcut(s1)
                      THEN clear_shortcut(IF ~s1.entry_shown THEN reset(s1) ELSE s1)
                      ELSE s1
        ELSE s

----------------------------------------------------------------------------
(* Key press handlers of src/app/mod.rs *)

\* a slip in command_key_press: Escape is matched like any other key
command_key_press_no_escape(s, key, activated) == handle_shortcut(s, key, activated)

\* Handle the key press event for the command mode.
command_key_press(s, key, activated) ==
    IF key.keyval = KEY.Escape
    THEN emit(s, EnterNormalModeAndReset)
    ELSE handle_shortcut(s, key, activated)

\* a slip in input_key_press: Escape leaves the callback stored
input_key_press_keep_callback(s, key, activated) ==
    IF key.keyval = KEY.Escape
    THEN LET s1 == IF s.input_callback # None THEN call_callback(s, None) ELSE s
         IN  emit(s1, EnterNormalModeAndReset)
    ELSE LET shortcut == handle_input_shortcut(s, key)
             character == char_from_u32(key.keyval)
         IN  IF shortcut.hit THEN shortcut.state
             ELSE IF character # None /\ character[1] \in s.choices
                  THEN LET r == set_dialog_answer(s, <<character[1]>>)
                       IN  emit_option(r.state, r.msg)
                  ELSE handle_shortcut(s, key, activated)

\* Handle the key press event for the input mode.
input_key_press(s, key, activated) ==
    IF key.keyval = KEY.Escape
    THEN LET s1 == IF s.input_callback # None THEN call_callback(s, None) ELSE s
         IN  emit([s1 EXCEPT !.input_callback = None], EnterNormalModeAndReset)
    ELSE LET shortcut == handle_input_shortcut(s, key)
             character == char_from_u32(key.keyval)
         IN  IF shortcut.hit THEN shortcut.state
             ELSE IF character # None /\ character[1] \in s.choices
                  THEN LET r == set_dialog_answer(s, <<character[1]>>)
                       IN  emit_option(r.state, r.msg)
                  ELSE handle_shortcut(s, key, activated)

\* a slip in normal_key_press: the colon is a key like the others
normal_key_press_no_colon(s, key, activated) ==
    CASE key.keyval = KEY.Escape ->
            handle_shortcut(clear_shortcut(reset(s)), key, activated)
      [] OTHER ->
            LET character == as_u8_char(key.keyval)
            IN  IF is_identifier(character)
                THEN show_entry(clear_shortcut(reset(
                        set_mode(set_current_identifier(s, character), COMMAND_MODE))))
                ELSE handle_shortcut(s, key, activated)

\* Handle the key press event for the normal mode.
normal_key_press(s, key, activated) ==
    CASE key.keyval = KEY.colon -> emit(s, EnterCommandMode)
      [] key.keyval = KEY.Escape ->
            handle_shortcut(clear_shortcut(reset(s)), key, activated)
      [] OTHER ->
            LET character == as_u8_char(key.keyval)
            IN  IF is_identifier(character)
                THEN show_entry(clear_shortcut(reset(
                        set_mode(set_current_identifier(s, character), COMMAND_MODE))))
                ELSE handle_shortcut(s, key, activated)

\* Handle the key press event.
key_press(s, key, activated) ==
    CASE s.current_mode = NORMAL_MODE -> normal_key_press(s, key, activated)
      [] s.current_mode = COMMAND_MODE -> command_key_press(s, key, activated)
      [] s.current_mode \in {BLOCKING_INPUT_MODE, INPUT_MODE} ->
            input_key_press(s, key, activated)
      [] OTHER -> handle_shortcut(s, key, activated)

\* Handle the command entry activate event (mod.rs).
command_activate(s, input) ==
    IF s.current_mode = INPUT_MODE \/ s.current_mode = BLOCKING_INPUT_MODE
    THEN LET should_reset == s.input_callback # None
             s1 == IF should_reset
                   THEN call_callback([s EXCEPT !.answer = input], input)
                   ELSE s
             s2 == [s1 EXCEPT !.input_callback = None, !.choices = {}]
         IN  IF should_reset THEN emit(s2, EnterNormalModeAndReset) ELSE s2
    ELSE handle_command(s, input, TRUE)

\* Handle the command entry activate event (command.rs): the callback is taken
\* out of the model before it is called.
command_activate_take(s, input) ==
    IF s.current_mode = INPUT_MODE \/ s.current_mode = BLOCKING_INPUT_MODE
    THEN LET should_reset == s.input_callback # None
             taken == [s EXCEPT !.input_callback = None]
             s1 == IF should_reset
                   THEN call_callback([taken EXCEPT !.answer = input], input)
                   ELSE taken
             s2 == [s1 EXCEPT !.choices = {}]
         IN  IF should_reset THEN emit(s2, EnterNormalModeAndReset) ELSE s2
    ELSE handle_command(s, input, TRUE)

\* a slip in update: EnterNormalModeAndReset does not reset
update_no_reset(s, event) ==
    CASE event.type = "EnterCommandMode" ->
            [show_entry(clear_shortcut(reset(
                set_mode(set_current_identifier(s, ":"), COMMAND_MODE))))
             EXCEPT !.completion_shown = TRUE]
      [] event.type = "EnterNormalMode" -> return_to_normal_mode(s)
      [] event.type = "EnterNormalModeAndReset" -> return_to_normal_mode(s)
      [] event.type = "HideColoredMessage" -> hide_colored_message(s, event.text)
      [] event.type = "HideInfo" -> hide_info(s, event.text)
      [] event.type = "SetMode" -> set_mode(s, event.mode)
      [] OTHER -> s

\* update: handle a message of the stream
update(s, event) ==
    CASE event.type = "EnterCommandMode" ->
            [show_entry(clear_shortcut(reset(
                set_mode(set_current_identifier(s, ":"), COMMAND_MODE))))
             EXCEPT !.completion_shown = TRUE]
      [] event.type = "EnterNormalMode" -> return_to_normal_mode(s)
      [] event.type = "EnterNormalModeAndReset" ->
            clear_shortcut(reset(return_to_normal_mode(s)))
      [] event.type = "HideColoredMessage" -> hide_colored_message(s, event.text)
      [] event.type = "HideInfo" -> hide_info(s, event.text)
      [] event.type = "SetMode" -> set_mode(s, event.mode)
      [] OTHER -> s

\* init_view: the commands of the configuration file are executed
init_view(s, parse_result) == execute_commands(s, parse_result, FALSE)

----------------------------------------------------------------------------
(* The input request of the host (dialog): it stores the callback, the     *)
(* choices and the choice shortcuts and enters an input mode; a blocking   *)
(* request runs a nested main loop until an answer is recorded.            *)

request(s, r) ==
    LET s1 == [s EXCEPT !.input_callback = r.callback,
                        !.choices = r.choices,
                        !.shortcuts = r.shortcuts,
                        !.answer = None,
                        !.entry_shown = r.show,
                        !.main_loop = IF r.blocking THEN "running" ELSE @,
                        !.cb_log = <<>>,
                        !.cb_stored = FALSE]
    IN  set_mode(s1, IF r.blocking THEN BLOCKING_INPUT_MODE ELSE INPUT_MODE)

\* the nested main loop has returned: the blocked caller goes on
blocking_return(s) ==
    [return_to_normal_mode(s) EXCEPT !.main_loop = "idle"]

----------------------------------------------------------------------------
(* History of the key presses handed to handle_shortcut *)

NoRun == [ok |-> FALSE, mode |-> "", keys |-> <<>>, resolved |-> <<>>,
          dispatched |-> <<>>]

\* keys is bound in the table of mode, or a prefix of a bound sequence
PrefixOfBinding(table, mode, keys) ==
    mode \in DOMAIN table /\ \E b \in DOMAIN table[mode] : starts_with(b, keys)

\* keys is a strict prefix of a sequence bound in the table of mode
StrictPrefixOfBinding(table, mode, keys) ==
    mode \in DOMAIN table
    /\ \E b \in DOMAIN table[mode] : starts_with(b, keys) /\ b # keys

\* the run after a key press: the keys handle_shortcut appended one after the
\* other in one mode, starting from an empty buffer, with no other event between
NextRun(key, s) ==
    LET k == gdk_key_to_key(key.keyval, key.control)[1]
        cleared == current_mode = NORMAL_MODE /\ key.keyval = KEY.Escape
        continues == run.ok /\ run.mode = current_mode /\ ~cleared
        keys == IF continues THEN Append(run.keys, k) ELSE <<k>>
        before == IF continues THEN run ELSE NoRun
    IN  IF s.appended
           /\ (continues \/ cleared \/ current_shortcut = <<>>)
           /\ Len(keys) <= MaxRun
           /\ PrefixOfBinding(mappings, current_mode, keys)
        THEN [ok |-> TRUE, mode |-> current_mode, keys |-> keys,
              resolved |-> before.resolved \o s.resolved,
              dispatched |-> before.dispatched \o s.dispatched]
        ELSE NoRun

\* the Escape presses handled in an input mode for the current request, from
\* the one that found the callback of the request stored
NextEscapes(key) ==
    IF key.keyval = KEY.Escape
       /\ current_mode \in {INPUT_MODE, BLOCKING_INPUT_MODE}
       /\ (input_callback # None \/ escapes > 0)
    THEN escapes + 1
    ELSE escapes

----------------------------------------------------------------------------
(* The events *)

\* model(): the fields of Model
ModelInit ==
    /\ current_mode = NORMAL_MODE
    /\ current_command_mode = DEFAULT_IDENTIFIER
    /\ current_shortcut = <<>>
    /\ entry_shown = FALSE
    /\ completion_shown = FALSE
    /\ message = ""
    /\ color = "normal"
    /\ timers = <<>>
    /\ mode_label = ""
    /\ mappings = <<>>
    /\ input_callback = None
    /\ choices = {}
    /\ shortcuts = <<>>
    /\ answer = None
    /\ settings = "default"
    /\ msgs = <<>>
    /\ main_loop = "idle"
    /\ started = FALSE
    /\ panicked = FALSE
    /\ cb_log = <<>>
    /\ cb_stored = FALSE
    /\ escapes = 0
    /\ fired = None
    /\ run = NoRun

\* the model of a caller that declares the insert mode
Init ==
    /\ user_modes = UserModes
    /\ registry = Some(modes)
    /\ ModelInit

\* the state after a handler
Becomes(s) ==
    /\ UNCHANGED <<user_modes, registry>>
    /\ Len(s.msgs) <= MaxMsgs
    /\ Len(s.cb_log) <= MaxCalls
    /\ current_mode' = s.current_mode
    /\ current_command_mode' = s.current_command_mode
    /\ current_shortcut' = s.current_shortcut
    /\ entry_shown' = s.entry_shown
    /\ completion_shown' = s.completion_shown
    /\ message' = s.message
    /\ color' = s.color
    /\ timers' = s.timers
    /\ fired' = s.fired
    /\ mode_label' = s.mode_label
    /\ mappings' = s.mappings
    /\ input_callback' = s.input_callback
    /\ choices' = s.choices
    /\ shortcuts' = s.shortcuts
    /\ answer' = s.answer
    /\ settings' = s.settings
    /\ msgs' = s.msgs
    /\ main_loop' = s.main_loop
    /\ cb_log' = s.cb_log
    /\ cb_stored' = s.cb_stored
    /\ panicked' = s.panicked

InitView(parse_result) ==
    /\ ~started
    /\ started' = TRUE
    /\ UNCHANGED escapes
    /\ LET s == init_view(State, parse_result)
       IN  Becomes(s)
    /\ run' = NoRun

KeyPress(key, activated) ==
    /\ started
    /\ LET s == key_press(State, key, activated)
       IN  Becomes(s) /\ run' = NextRun(key, s)
    /\ escapes' = NextEscapes(key)
    /\ UNCHANGED started

Activate(input) ==
    /\ started
    /\ UNCHANGED escapes
    /\ entry_shown
    /\ LET s == command_activate(State, input)
       IN  Becomes(s)
    /\ run' = NoRun
    /\ UNCHANGED started

ActivateTake(input) ==
    /\ started
    /\ UNCHANGED escapes
    /\ entry_shown
    /\ LET s == command_activate_take(State, input)
       IN  Becomes(s)
    /\ run' = NoRun
    /\ UNCHANGED started

Update ==
    /\ started
    /\ msgs # <<>>
    /\ UNCHANGED escapes
    /\ LET s == update([State EXCEPT !.msgs = Tail(msgs)], Head(msgs))
       IN  Becomes(s)
    /\ run' = NoRun
    /\ UNCHANGED started

HostMsg(msg) ==
    /\ started
    /\ UNCHANGED escapes
    /\ LET s == update(State, msg)
       IN  Becomes(s)
    /\ run' = NoRun
    /\ UNCHANGED started

\* the window was asked to close and the message is not handled yet
ClosePending == \E i \in 1..Len(msgs) : msgs[i] = AppClose

\* delete_event: the window is asked to close. AppClose is left to the host
\* by update, so the event is taken while a blocking request waits, once.
DeleteEvent ==
    /\ started
    /\ current_mode = BLOCKING_INPUT_MODE
    /\ main_loop = "running"
    /\ ~ClosePending
    /\ UNCHANGED escapes
    /\ LET s == emit(State, AppClose)
       IN  Becomes(s)
    /\ run' = NoRun
    /\ UNCHANGED started

Request(r) ==
    /\ started
    /\ escapes' = 0
    /\ current_mode \in {NORMAL_MODE, COMMAND_MODE}
    /\ main_loop = "idle"
    /\ LET s == request(State, r)
       IN  Becomes(s)
    /\ run' = NoRun
    /\ UNCHANGED started

BlockingReturn ==
    /\ started
    /\ UNCHANGED escapes
    /\ main_loop = "quit"
    /\ LET s == blocking_return(State)
       IN  Becomes(s)
    /\ run' = NoRun
    /\ UNCHANGED started

\* the host calls info, warning, message, alert or error with a text
Info(text) ==
    /\ started
    /\ Len(timers) < MaxTimers
    /\ Becomes(info(State, text))
    /\ run' = NoRun
    /\ UNCHANGED <<started, escapes>>

Warning(text) ==
    /\ started
    /\ Len(timers) < MaxTimers
    /\ Becomes(warning(State, text))
    /\ run' = NoRun
    /\ UNCHANGED <<started, escapes>>

ShowMessage(text) ==
    /\ started
    /\ Becomes(show_message(State, text))
    /\ run' = NoRun
    /\ UNCHANGED <<started, escapes>>

Alert(text) ==
    /\ started
    /\ Becomes(alert(State, text))
    /\ run' = NoRun
    /\ UNCHANGED <<started, escapes>>

ShowError(text) ==
    /\ started
    /\ Becomes(error(State, text))
    /\ run' = NoRun
    /\ UNCHANGED <<started, escapes>>

\* the oldest hide timer fires (the timers have the same duration): its
\* message is handled by update
TimerFires ==
    /\ started
    /\ timers # <<>>
    /\ LET event == Head(timers)
           s == update([State EXCEPT !.timers = Tail(timers)], event)
       IN  Becomes([s EXCEPT !.fired =
                        Some([type |-> event.type, text |-> event.text,
                              own |-> event.own, before |-> message,
                              color |-> color])])
    /\ run' = NoRun
    /\ UNCHANGED <<started, escapes>>

Next ==
    \/ \E parse_result \in ConfigResults : InitView(parse_result)
    \/ \E key \in KeyEvents, activated \in BOOLEAN : KeyPress(key, activated)
    \/ \E input \in ActivateInputs : Activate(input)
    \/ \E input \in ActivateInputs : ActivateTake(input)
    \/ Update
    \/ \E msg \in HostMsgs : HostMsg(msg)
    \/ DeleteEvent
    \/ \E r \in Requests : Request(r)
    \/ BlockingReturn

Spec == Init /\ [][Next]_vars

\* the main loop handles the messages of the stream, and the nested main loop
\* returns once it was quit
FairSpec == Spec /\ WF_vars(Update) /\ WF_vars(BlockingReturn)

\* the messages of the status bar: the host displays messages, the hide
\* timers fire, and Escape resets
MessageNext ==
    \/ \E parse_result \in ConfigResults : InitView(parse_result)
    \/ \E text \in Texts : Info(text)
    \/ \E text \in Texts : Warning(text)
    \/ \E text \in Texts : ShowMessage(text)
    \/ \E text \in Texts : Alert(text)
    \/ \E text \in Texts : ShowError(text)
    \/ TimerFires
    \/ \E activated \in BOOLEAN : KeyPress(EventKey(KEY.Escape, FALSE), activated)

MessageSpec == Init /\ [][MessageNext]_vars

\* the start-up: a caller declares its modes and model() calls parse_config,
\* which builds the mode registry or panics
StartInit ==
    /\ user_modes \in UserModeLists
    /\ registry = None
    /\ ModelInit

ParseConfig ==
    /\ registry = None
    /\ ~panicked
    /\ LET result == parse_config(user_modes)
       IN  /\ panicked' = result.panicked
           /\ registry' = IF result.panicked THEN None ELSE Some(result.modes)
    /\ UNCHANGED <<user_modes, current_mode, current_command_mode,
                   current_shortcut, entry_shown, completion_shown, message,
                   color, timers, mode_label, mappings, input_callback,
                   choices, shortcuts, answer, settings, msgs, main_loop,
                   started, cb_log, cb_stored, escapes, fired, run>>

StartNext == ParseConfig

StartSpec == StartInit /\ [][StartNext]_vars

----------------------------------------------------------------------------
(* Properties of the shortcut matcher *)

Range(seq) == {seq[i] : i \in 1..Len(seq)}

\* no non-empty proper prefix of keys is bound in the table of mode
NoPrefixBound(table, mode, keys) ==
    \A i \in 1..(Len(keys) - 1) : SubSeq(keys, 1, i) \notin DOMAIN table[mode]

\* the keys of the run are not bound in the mode of the run, and a binding
\* of that mode extends them
RunIsOpenPrefix ==
    /\ run.ok
    /\ run.keys \notin DOMAIN mappings[run.mode]
    /\ StrictPrefixOfBinding(mappings, run.mode, run.keys)

\* the run is left in the buffer, nothing was resolved or dispatched, and the
\* mode is the one the keys were pressed in
RunIsBuffered ==
    /\ current_shortcut = run.keys
    /\ run.resolved = <<>>
    /\ run.dispatched = <<>>
    /\ current_mode = run.mode

RunIsBound == run.ok /\ run.keys \in DOMAIN mappings[run.mode]

RunAction == mappings[run.mode][run.keys]

----------------------------------------------------------------------------
(* Properties of the input modes and of Escape *)

InputModes == {INPUT_MODE, BLOCKING_INPUT_MODE}

ESCAPE_KEY == EventKey(KEY.Escape, FALSE)

\* the step is the handling of an Escape key press
EscapePress == \E activated \in BOOLEAN : KeyPress(ESCAPE_KEY, activated)

\* the step is the handling of the message EnterNormalModeAndReset
ResetHandled == Update /\ Head(msgs) = EnterNormalModeAndReset

\* the handler returns EnterNormalModeAndReset
ResetEmitted == msgs' = Append(msgs, EnterNormalModeAndReset)

\* C3 as stated: in Input and BlockingInput mode, when the buffer after a key
\* press is a strict prefix of a sequence bound in Command mode and is not
\* itself bound there, the buffer is kept for the next key.
C3_Claim ==
    [][\A key \in KeyEvents, activated \in BOOLEAN :
        LET k == gdk_key_to_key(key.keyval, key.control)
            buffer == Append(current_shortcut, k[1])
        IN  (/\ current_mode \in InputModes
             /\ KeyPress(key, activated)
             /\ key_press(State, key, activated).appended
             /\ StrictPrefixOfBinding(mappings, COMMAND_MODE, buffer)
             /\ buffer \notin DOMAIN mappings[COMMAND_MODE])
            => current_shortcut' = buffer]_vars

C6_EscapeDeliversOnce == escapes >= 1 => cb_log = <<None>>

C6_Witness == escapes = 2 /\ cb_log = <<None>> /\ Len(msgs) = 2

\* C7 as stated: whenever the callback runs in Input mode, no callback is
\* stored at that moment.
C7_Claim == ~cb_stored

\* C8 as stated: a stored callback or a non-empty choices set exists only
\* while the mode is Input or BlockingInput.
C8_Claim ==
    (input_callback # None \/ choices # {}) => current_mode \in InputModes

\* the request of C9: Input mode, the callback stored, the choices y and n
YesNoRequest ==
    current_mode = INPUT_MODE /\ input_callback # None /\ choices = {"y", "n"}

\* a printable key that is neither a choice nor a registered choice shortcut
OtherPrintable(key) ==
    /\ key.keyval < 256
    /\ Chr(key.keyval) \notin choices
    /\ gdk_key_to_key(key.keyval, key.control)[1] \notin DOMAIN shortcuts

\* the request is untouched: nothing called, callback and choices as before
RequestKept ==
    cb_log' = cb_log /\ input_callback' = input_callback /\ choices' = choices

C10_Claim ==
    [][(/\ current_mode = INPUT_MODE
        /\ input_callback # None
        /\ cb_log' # cb_log
        /\ cb_log' # <<>>)
       => (choices' = {} /\ input_callback' = None /\ ResetEmitted)]_vars

----------------------------------------------------------------------------
(* Properties of the blocking input request *)

\* a blocking request is outstanding: the caller waits in the nested main loop
BlockingWait == current_mode = BLOCKING_INPUT_MODE /\ main_loop = "running"

\* the answer is recorded and the wait released; no callback is called
Released(value) ==
    answer' = value /\ main_loop' = "quit" /\ cb_log' = cb_log

\* C11 as stated: in BlockingInput mode a choice character, a choice shortcut
\* and an entry activation with a text each record the answer, release the
\* blocking wait and call no callback.
C11_Claim ==
    [][/\ \A key \in KeyEvents, activated \in BOOLEAN :
            LET k == gdk_key_to_key(key.keyval, key.control)
                character == char_from_u32(key.keyval)
            IN  (BlockingWait /\ key.keyval # KEY.Escape /\ KeyPress(key, activated)) =>
                    IF k # None /\ k[1] \in DOMAIN shortcuts
                    THEN Released(Some(shortcuts[k[1]]))
                    ELSE (character # None /\ character[1] \in choices)
                            => Released(Some(<<character[1]>>))
       /\ \A input \in {i \in ActivateInputs : i # None /\ i[1] # <<>>} :
            (BlockingWait /\ (Activate(input) \/ ActivateTake(input)))
                => Released(input)]_vars

\* the step is the handling of EnterNormalModeAndReset while the caller waits
ResetHandledWaiting == main_loop = "running" /\ ResetHandled

\* C12 as stated: an Escape key press while a BlockingInput request is
\* outstanding, with the message it returns, releases the blocking wait with
\* the answer absent.
C12_Claim ==
    [][/\ (BlockingWait /\ EscapePress) =>
            (answer' = None /\ (main_loop' = "quit" \/ ResetEmitted))
       /\ ResetHandledWaiting => main_loop' = "quit"]_vars

\* C13 as stated: when the window is closed while a BlockingInput request is
\* outstanding, the nested main loop is eventually released.
C13_Claim == (BlockingWait /\ ClosePending) ~> (main_loop # "running")

----------------------------------------------------------------------------
(* Properties of the command entry and of the mode operations *)

\* C14 as stated: every entry-activate event received in Command mode,
\* whatever the identifier and the text, ends with the mode equal to Normal.
C14_Claim ==
    [][\A input \in ActivateInputs :
        (current_mode = COMMAND_MODE /\ (Activate(input) \/ ActivateTake(input)))
            => current_mode' = NORMAL_MODE]_vars

\* s is in Normal mode with the default identifier, the entry and the
\* completion view hidden
IsNormal(s) ==
    /\ s.current_mode = NORMAL_MODE
    /\ s.current_command_mode = DEFAULT_IDENTIFIER
    /\ ~s.entry_shown
    /\ ~s.completion_shown

\* C15: return_to_normal_mode gives, from every state, the Normal mode, the
\* default identifier ':' and the entry and the completion view hidden; so
\* does the handling of EnterNormalMode, which is this operation.
C15_ReturnToNormal ==
    [][/\ IsNormal(return_to_normal_mode(State))
       /\ HostMsg(EnterNormalMode) => IsNormal(State)']_vars

\* Normal mode was returned to from the input request that shows the entry
\* and has the choice shortcut Ctrl+g
C15_Witness ==
    /\ IsNormal(State)
    /\ input_callback # None
    /\ K_Cg \in DOMAIN shortcuts

\* C16: the mode label is empty in the built-in modes and is the name of the
\* current mode in every other mode.
C16_ModeLabel ==
    mode_label = IF current_mode \in BuiltinModes THEN "" ELSE current_mode

C16_Witness == current_mode = INSERT_MODE /\ mode_label = INSERT_MODE

----------------------------------------------------------------------------
(* Properties of the command dispatch *)

\* the command entry is open for a command line
CommandLine ==
    current_mode = COMMAND_MODE /\ current_command_mode = DEFAULT_IDENTIFIER
        /\ entry_shown

\* the states commands are dispatched in: the start-up, where init_view
\* executes the configuration, and the open command entry
Dispatching == ~started \/ CommandLine

\* the start-up and the command entry as it opens: nothing is buffered and no
\* message waits
DispatchPoint == Dispatching /\ msgs = <<>> /\ current_shortcut = <<>>

\* the batch of C17: set foo bar, set foo ???, map n gg go-top
SetSetMap == ParseResult(ConfigBatches[4], <<>>)

\* the Normal mode table after the batch of C17
GoTopBound ==
    /\ NORMAL_MODE \in DOMAIN mappings
    /\ mappings[NORMAL_MODE] = [k \in {<<K_g, K_g>>} |-> ACTION_TOP]

\* C17: the batch [set foo bar, set foo ???, map n gg go-top] applies the
\* first setting, gives exactly one error "Error setting value" and binds gg
\* in the Normal mode table; pressing g, g in Normal mode afterwards resolves
\* to Complete("go-top"), and the setting keeps the value of the first command.
C17_BatchThenShortcut ==
    /\ ~started =>
            LET s == init_view(State, SetSetMap)
            IN  /\ s.errors = <<"Error setting value">>
                /\ s.changed = <<"bar">>
                /\ s.settings = "bar"
                /\ s.applied = SetSetMap.commands
                /\ s.mappings = [m \in {NORMAL_MODE} |->
                                    [k \in {<<K_g, K_g>>} |-> ACTION_TOP]]
    /\ (GoTopBound /\ run.ok /\ run.mode = NORMAL_MODE /\ run.keys = <<K_g, K_g>>) =>
            /\ run.resolved = <<ACTION_TOP>>
            /\ action_to_command(ACTION_TOP) = Complete(<<"t">>)
            /\ run.dispatched = <<<<"t">>>>
            /\ settings = "bar"

C17_Witness ==
    /\ GoTopBound
    /\ run.ok /\ run.mode = NORMAL_MODE /\ run.keys = <<K_g, K_g>>
    /\ run.dispatched = <<<<"t">>>>
    /\ settings = "bar"
    /\ current_shortcut = <<>>

\* the message the error sink gets for a parse error
SunkText(err) ==
    CASE err.typ = "MissingArgument" -> "Argument required"
      [] err.typ = "Parse" -> "Parse error: unexpected 1, expecting: identifier"
      [] err.typ = "UnknownCommand" -> "Not a command: foo"

\* the errors a parse result must surface: one for every set command whose
\* coercion fails, then one for every parse error other than NoCommand
SunkErrors(parse_result) ==
    LET failed == SelectSeq(parse_result.commands,
                    LAMBDA c : c.type = "Set" /\ ~to_variant(c.name, c.value).ok)
        shown == SelectSeq(parse_result.errors, LAMBDA e : e.typ # "NoCommand")
    IN  [i \in 1..Len(failed) |-> "Error setting value"]
            \o [i \in 1..Len(shown) |-> SunkText(shown[i])]

\* C18: execute_commands applies every command of the parse result once and
\* in order, and hands every parse error but NoCommand to the error sink
\* once; neither an error nor a failing command stops the batch.
C18_BatchIsExecuted ==
    Dispatching =>
        \A parse_result \in ConfigResults, activated \in BOOLEAN :
            LET s == execute_commands(State, parse_result, activated)
            IN  /\ s.applied = parse_result.commands
                /\ s.errors = SunkErrors(parse_result)

\* the start-up parse result with lines in error was executed
C18_Witness ==
    /\ started
    /\ message = "Argument required"
    /\ COMMAND_MODE \in DOMAIN mappings
    /\ <<K_Cg, K_Cg>> \in DOMAIN mappings[COMMAND_MODE]
    /\ <<K_Esc, K_g>> \in DOMAIN mappings[NORMAL_MODE]

\* the set command failed: one error, the settings as before, no SettingChanged
SetFailed(s) ==
    /\ s.errors = <<"Error setting value">>
    /\ s.message = "Error setting value"
    /\ s.settings = settings
    /\ s.changed = <<>>

\* the set command was applied: the variant stored, one SettingChanged with it
SetApplied(s) ==
    /\ s.errors = <<>>
    /\ s.settings = "bar"
    /\ s.changed = <<"bar">>

\* C19: a set command whose coercion fails gives exactly one error "Error
\* setting value", leaves the settings as they were and emits no
\* SettingChanged; one whose coercion succeeds stores the variant and emits
\* exactly one SettingChanged with it. Typed in the command entry, both end in
\* Normal mode.
C19_SetSetting ==
    /\ Dispatching =>
        /\ SetFailed(call_command(State, Set("foo", "???")))
        /\ SetApplied(call_command(State, Set("foo", "bar")))
    /\ CommandLine =>
        /\ SetFailed(command_activate(State, Some(<<"b">>)))
        /\ SetApplied(command_activate(State, Some(<<"s">>)))
        /\ command_activate(State, Some(<<"b">>)).current_mode = NORMAL_MODE
        /\ command_activate(State, Some(<<"s">>)).current_mode = NORMAL_MODE

\* a set command failed after the configuration that ends with set foo bar
C19_Witness ==
    /\ current_mode = NORMAL_MODE
    /\ message = "Error setting value"
    /\ settings = "bar"
    /\ INSERT_MODE \in DOMAIN mappings
    /\ <<K_y>> \in DOMAIN mappings[INSERT_MODE]

\* the key sequences the unmap commands of the properties name
UnmapKeys == {<<K_g>>, <<K_y>>, <<K_g, K_g>>, <<K_Cg, K_y>>}

\* keys is bound in the table of the mode of prefix p
IsBound(p, keys) ==
    modes[p] \in DOMAIN mappings /\ keys \in DOMAIN mappings[modes[p]]

\* the bindings of a mapping table
Bindings(maps) ==
    UNION {{<<m, k, maps[m][k]>> : k \in DOMAIN maps[m]} : m \in DOMAIN maps}

\* C20 as stated: an unmap of keys that are not bound in the mode, the mode
\* having a table or not, leaves the mapping table equal to what it was and
\* gives no error.
C20_Original ==
    \A p \in DOMAIN modes, keys \in UnmapKeys :
        (Dispatching /\ ~IsBound(p, keys)) =>
            LET s == call_command(State, Unmap(p, keys))
            IN  s.mappings = mappings /\ s.errors = <<>>

\* C20, amended: such an unmap gives no error and leaves every binding as it
\* was; the mapping table is equal to what it was when the mode has a table,
\* and has gained an empty table for the mode when it had none.
C20_UnmapKeepsBindings ==
    \A p \in DOMAIN modes, keys \in UnmapKeys :
        (Dispatching /\ ~IsBound(p, keys)) =>
            LET s == call_command(State, Unmap(p, keys))
            IN  /\ s.errors = <<>>
                /\ Bindings(s.mappings) = Bindings(mappings)
                /\ IF modes[p] \in DOMAIN mappings
                   THEN s.mappings = mappings
                   ELSE /\ DOMAIN s.mappings = DOMAIN mappings \cup {modes[p]}
                        /\ DOMAIN s.mappings[modes[p]] = {}

\* the configuration that unmaps y in the insert mode, which has no table, was
\* executed
C20_Witness ==
    /\ started
    /\ INSERT_MODE \in DOMAIN mappings
    /\ DOMAIN mappings[INSERT_MODE] = {}
    /\ <<K_g, K_g, K_g>> \in DOMAIN mappings[NORMAL_MODE]

\* the map and unmap commands the properties dispatch
MapUnmapCommands ==
    {Map(p, k, a) : p \in {"n", "i"}, k \in {<<K_g>>, <<K_g, K_g>>},
                    a \in {ACTION_TOP, ACTION_UP}}
        \cup {Unmap(p, k) : p \in {"n", "i"}, k \in {<<K_g>>, <<K_g, K_g>>}}

\* the action keys is bound to in the table of mode, if any
Lookup(maps, mode, keys) ==
    IF mode \in DOMAIN maps /\ keys \in DOMAIN maps[mode]
    THEN Some(maps[mode][keys]) ELSE None

\* every mode and every key sequence of a mapping table
ModesOf(maps) == DOMAIN maps \cup {modes[p] : p \in DOMAIN modes}
KeysOf(maps) ==
    UNION {DOMAIN maps[m] : m \in DOMAIN maps} \cup {<<K_g>>, <<K_g, K_g>>}

\* what (mode, keys) must be bound to after the commands: the action of the
\* most recent map of it that no unmap of it follows, and what it was bound to
\* before when no command names it
MostRecent(maps, commands, mode, keys) ==
    LET named == {i \in 1..Len(commands) :
                    modes[commands[i].mode] = mode /\ commands[i].keys = keys}
    IN  IF named = {} THEN Lookup(maps, mode, keys)
        ELSE LET last == CHOOSE i \in named : \A j \in named : j <= i
             IN  IF commands[last].type = "Map"
                 THEN Some(commands[last].action) ELSE None

\* C21: after map and unmap dispatches, every (mode, keys) is bound to the
\* action of the most recent map of it that no unmap of it follows; a map of
\* a bound sequence overwrites its action, and a dispatch for the prefix p
\* changes the binding of its keys in the mode of p and no other binding. The
\* commands are dispatched at the start-up and in the command entry as it opens.
C21_LastMapWins ==
    DispatchPoint =>
        \A c1, c2 \in MapUnmapCommands :
            LET one == call_command(State, c1)
                two == call_command(one, c2)
            IN  /\ one.errors = <<>> /\ two.errors = <<>>
                /\ \A m \in ModesOf(two.mappings), k \in KeysOf(two.mappings) :
                    /\ Lookup(one.mappings, m, k) = MostRecent(mappings, <<c1>>, m, k)
                    /\ Lookup(two.mappings, m, k) = MostRecent(mappings, <<c1, c2>>, m, k)
                    /\ (modes[c1.mode] # m \/ c1.keys # k) =>
                            Lookup(one.mappings, m, k) = Lookup(mappings, m, k)

\* the configuration that maps g twice and maps, then unmaps, y in Normal mode
\* was executed, and the command entry is open
C21_Witness ==
    /\ CommandLine /\ DispatchPoint
    /\ Lookup(mappings, NORMAL_MODE, <<K_g>>) = Some(ACTION_TOP)
    /\ Lookup(mappings, NORMAL_MODE, <<K_y>>) = None
    /\ Lookup(mappings, NORMAL_MODE, <<K_g, K_g, K_g>>) = Some(ACTION_UP)

----------------------------------------------------------------------------
(* Properties of action_to_command *)

ACTION_QUIT == <<":", "q", "u", "i", "t">> \o ENTER_MARKER
ACTION_E == <<":", "e", " ">>

\* the action strings the property is checked for
ActionStrings ==
    {ACTION_QUIT, ACTION_E, ACTION_TOP, ACTION_UP, ACTION_EDIT, ACTION_SET,
     <<>>, <<":">>, <<":">> \o ENTER_MARKER,
     <<":", "a">> \o ENTER_MARKER \o <<"b">> \o ENTER_MARKER,
     <<":", "<", "E", "n", "t">>,
     <<":", "<">> \o ENTER_MARKER,
     <<"a">> \o ENTER_MARKER,
     <<"q", ":">> \o ENTER_MARKER}

\* the marker <Enter> occurs in text
HasEnter(text) ==
    \E i \in 1..(Len(text) - Len(ENTER_MARKER) + 1) :
        SubSeq(text, i, i + Len(ENTER_MARKER) - 1) = ENTER_MARKER

\* result is what the action stands for: for an action that starts with the
\* identifier, the text between the identifier and the first <Enter>, Complete,
\* or the text after the identifier, Incomplete, when there is no <Enter>;
\* for every other action the whole string, Complete
StandsFor(action, result) ==
    IF action # <<>> /\ Head(action) = DEFAULT_IDENTIFIER
    THEN IF HasEnter(action)
         THEN LET n == Len(result.text)
              IN  /\ result.kind = "Complete"
                  /\ Len(action) >= n + 1 + Len(ENTER_MARKER)
                  /\ SubSeq(action, 1, n + 1 + Len(ENTER_MARKER))
                        = <<DEFAULT_IDENTIFIER>> \o result.text \o ENTER_MARKER
                  /\ ~HasEnter(SubSeq(action, 1, n + Len(ENTER_MARKER)))
         ELSE result = Incomplete(Tail(action))
    ELSE result = Complete(action)

\* C22: action_to_command gives, for an action that starts with the identifier
\* and holds <Enter>, Complete(the text between the identifier and the first
\* <Enter>); for one that starts with the identifier and holds no <Enter>,
\* Incomplete(the text after the identifier); for every other action,
\* Complete(the whole string). ":quit<Enter>" gives Complete("quit") and ":e "
\* gives Incomplete("e "). So it is for every action a mapping table binds.
C22_ActionToCommand ==
    /\ ~started =>
        /\ \A action \in ActionStrings : StandsFor(action, action_to_command(action))
        /\ action_to_command(ACTION_QUIT) = Complete(<<"q", "u", "i", "t">>)
        /\ action_to_command(ACTION_E) = Incomplete(<<"e", " ">>)
    /\ DispatchPoint =>
        \A m \in DOMAIN mappings : \A k \in DOMAIN mappings[m] :
            StandsFor(mappings[m][k], action_to_command(mappings[m][k]))

\* the binding of y in the insert mode was resolved to the Incomplete command
\* ":e", which opened the command entry
C22_Witness ==
    /\ CommandLine /\ DispatchPoint
    /\ run.ok /\ run.mode = INSERT_MODE /\ run.keys = <<K_y>>
    /\ run.resolved = <<ACTION_EDIT>>
    /\ run.dispatched = <<>>
    /\ action_to_command(mappings[INSERT_MODE][<<K_y>>]) = Incomplete(<<"e">>)

----------------------------------------------------------------------------
(* Properties of the error classification *)

\* parse errors, each with the message it must be reported with; NoCommand
\* has none
Classified ==
    {<<ParseError("MissingArgument", "", ""), "Argument required">>,
     <<ParseError("MissingArgument", "x", "y"), "Argument required">>,
     <<ParseError("Parse", "1", "identifier"),
       "Parse error: unexpected 1, expecting: identifier">>,
     <<ParseError("Parse", "", ""), "Parse error: unexpected , expecting: ">>,
     <<ParseError("UnknownCommand", "foo", ""), "Not a command: foo">>,
     <<ParseError("UnknownCommand", "", "command"), "Not a command: ">>}

NoCommandErrors ==
    {ParseError("NoCommand", "", ""), ParseError("NoCommand", "x", "y")}

\* C23: show_parse_error reports MissingArgument with "Argument required",
\* Parse with "Parse error: unexpected {unexpected}, expecting: {expected}",
\* UnknownCommand with "Not a command: {unexpected}", each with one call of
\* the error sink; a NoCommand error calls no error sink and leaves the
\* message, the entry and every other part of the state as they were, and a
\* blank command line gives no error and keeps the message.
C23_ErrorClassification ==
    /\ DispatchPoint =>
        /\ \A c \in Classified :
            LET s == show_parse_error(State, c[1])
            IN  s.errors = <<c[2]>> /\ s.message = c[2]
        /\ \A err \in NoCommandErrors : show_parse_error(State, err) = State
    /\ (DispatchPoint /\ CommandLine) =>
        LET s == command_activate(State, Some(<<>>))
        IN  s.errors = <<>> /\ s.message = message

\* the start-up parse result whose last error is NoCommand was executed: the
\* message is the one of the error before it
C23_Witness ==
    /\ started
    /\ msgs = <<>>
    /\ message = "Argument required"
    /\ Lookup(mappings, COMMAND_MODE, <<K_g>>) = Some(ACTION_EDIT)

----------------------------------------------------------------------------
(* Properties of the messages and of the hide timers *)

\* C24: when a hide timer that carries the text t fires, the message is
\* cleared if and only if it is t; a HideInfo leaves the colors as they are,
\* a HideColoredMessage resets them when it clears the message, and when the
\* message is not t the message, the colors and all the rest are unchanged.
C24_HideClearsOwnText ==
    /\ \A text \in Texts \cup {""} :
        /\ update(State, HideInfo(text)) =
              IF message = text THEN [State EXCEPT !.message = ""] ELSE State
        /\ update(State, HideColoredMessage(text)) =
              IF message = text
              THEN [State EXCEPT !.message = "", !.color = "normal"]
              ELSE State
    /\ fired # None =>
        IF fired[1].before = fired[1].text
        THEN /\ message = ""
             /\ color = IF fired[1].type = "HideInfo"
                        THEN fired[1].color ELSE "normal"
        ELSE message = fired[1].before /\ color = fired[1].color

\* the timer of a warning "a" fired while the alert "b" was displayed
C24_Witness ==
    /\ fired # None
    /\ fired[1].type = "HideColoredMessage"
    /\ fired[1].text = "a"
    /\ message = "b"
    /\ color = "blue"

\* C25 as stated: a hide timer started by an earlier info or warning call
\* never clears a message that a later call displayed, the later call
\* displaying the same text or another.
C25_Claim ==
    (fired # None /\ ~fired[1].own) => message = fired[1].before

----------------------------------------------------------------------------
(* Properties of the shortcut buffer *)

\* C26 as stated: whenever the current mode changes, the shortcut buffer is
\* empty afterwards: the keys accumulated in the previous mode are not carried
\* over into the new mode.
C26_Claim == [][current_mode' # current_mode => current_shortcut' = <<>>]_vars

----------------------------------------------------------------------------
(* Properties of the application commands *)

\* the command lines that name an application command
AppLines == {<<"a">>, <<"h">>}

\* C27: no configuration, typed command or resolved shortcut makes
\* app_command reach its fallback: the program has never panicked, and every
\* name of the list parse_config gives to the parser, dispatched as an
\* application command, typed in the command entry or bound to a shortcut, is
\* handled by a branch of app_command.
C27_AppCommandsHandled ==
    /\ ~panicked
    /\ DispatchPoint =>
        /\ \A i \in DOMAIN application_commands :
            ~call_command(State, App(application_commands[i])).panicked
        /\ \A line \in AppLines :
            LET commands == parse_line(line).commands
            IN  /\ commands # <<>>
                /\ \A i \in DOMAIN commands :
                    /\ commands[i].type = "App"
                    /\ commands[i].name \in Range(application_commands)
                /\ ~handle_command(State, Some(line), TRUE).panicked

\* Ctrl+g, bound in Command mode to the application command complete-next,
\* was pressed in the open command entry and the command dispatched
C27_Witness ==
    /\ ~panicked
    /\ current_mode = COMMAND_MODE
    /\ entry_shown
    /\ run.ok /\ run.mode = COMMAND_MODE /\ run.keys = <<K_Cg>>
    /\ run.resolved = <<ACTION_NEXT>>
    /\ run.dispatched = <<ACTION_NEXT>>

----------------------------------------------------------------------------
(* Properties of the mode registry *)

\* the caller declares a mode with the prefix of a built-in mode
DeclaresBuiltin(declared) ==
    \E i \in DOMAIN declared : declared[i][1] \in {"n", "c"}

\* the name declared for the prefix of the i-th mode: the one declared last
\* when the caller declares the prefix more than once
DeclaredLast(declared, i) ==
    \A j \in DOMAIN declared : declared[j][1] = declared[i][1] => j <= i

\* C28: parse_config panics when the caller declares a mode with the prefix n
\* or c, and nothing is produced; for every other list of caller modes the
\* registry maps n to normal, c to command and each caller prefix to the mode
\* name declared for it, and has no other prefix.
C28_ModeRegistry ==
    /\ parse_config(user_modes).panicked = DeclaresBuiltin(user_modes)
    /\ DeclaresBuiltin(user_modes) => registry = None
    /\ panicked => (DeclaresBuiltin(user_modes) /\ IsNormal(State) /\ ~started)
    /\ registry # None =>
        LET built == registry[1]
        IN  /\ ~panicked
            /\ built["n"] = NORMAL_MODE
            /\ built["c"] = COMMAND_MODE
            /\ DOMAIN built =
                  {"n", "c"} \cup {user_modes[i][1] : i \in DOMAIN user_modes}
            /\ \A i \in DOMAIN user_modes :
                  DeclaredLast(user_modes, i) =>
                      built[user_modes[i][1]] = user_modes[i][2]

\* the caller declared the insert mode and a mode of prefix c: the start-up
\* has panicked
C28_Witness ==
    /\ panicked
    /\ registry = None
    /\ user_modes = << <<"i", INSERT_MODE>>, <<"c", "visual">> >>

----------------------------------------------------------------------------
(* Properties of the dead end and of the accumulation gate *)

\* the table handle_shortcut looks the buffer up in
LookupMode == IF current_mode \in InputModes THEN COMMAND_MODE ELSE current_mode

\* the buffer once key is appended: the Escape key press of the Normal mode
\* resets before it hands the key to handle_shortcut
BufferWith(key) ==
    LET k == gdk_key_to_key(key.keyval, key.control)
    IN  IF current_mode = NORMAL_MODE /\ key.keyval = KEY.Escape
        THEN <<k[1]>> ELSE Append(current_shortcut, k[1])

\* the entry is shown when handle_shortcut gets the key
EntryShownFor(key) ==
    entry_shown /\ ~(current_mode = NORMAL_MODE /\ key.keyval = KEY.Escape)

\* with key appended the buffer is neither bound nor a prefix of a binding
DeadEnd(key) ==
    /\ gdk_key_to_key(key.keyval, key.control) # None
    /\ LET buffer == BufferWith(key)
       IN  \/ LookupMode \notin DOMAIN mappings
           \/ \A bound \in DOMAIN mappings[LookupMode] :
                    ~starts_with(bound, buffer)

\* C29: when the buffer with the pressed key appended is neither bound nor a
\* prefix of a binding of the active mode's table, the buffer is cleared and
\* nothing is resolved or dispatched; when the entry is not shown the entry
\* and the completion view are hidden, the message cleared and the colors
\* reset, and when the entry is shown the message, the colors, the entry and
\* the completion view are left as they are. (activated is read by
\* handle_command alone, which a dead end does not reach.)
C29_DeadEnd ==
    started =>
        \A key \in KeyEvents :
            DeadEnd(key) =>
                LET s == key_press(State, key, FALSE)
                IN  s.appended =>
                        /\ s.current_shortcut = <<>>
                        /\ s.resolved = <<>> /\ s.dispatched = <<>>
                        /\ s.applied = <<>>
                        /\ s.current_mode = current_mode
                        /\ IF EntryShownFor(key)
                           THEN /\ s.message = message
                                /\ s.color = color
                                /\ s.entry_shown
                                /\ s.completion_shown = completion_shown
                           ELSE /\ s.message = ""
                                /\ s.color = "normal"
                                /\ ~s.entry_shown
                                /\ ~s.completion_shown

\* the start-up left the message of a parse error; a key that leads nowhere
\* was pressed in Normal mode, and the message is cleared
C29_Witness ==
    /\ started
    /\ current_mode = NORMAL_MODE
    /\ Lookup(mappings, COMMAND_MODE, <<K_Cg, K_Cg>>) = Some(ACTION_TOP)
    /\ message = "" /\ color = "normal"
    /\ current_shortcut = <<>>
    /\ run = NoRun /\ msgs = <<>>
    /\ input_callback = None /\ answer = None /\ choices = {}

\* key has no control modifier and is neither Tab nor Shift+Tab
Plain(key) ==
    ~key.control /\ key.keyval # KEY.Tab /\ key.keyval # KEY.ISO_Left_Tab

\* the key press handler of the mode hands key to handle_shortcut as it is:
\* Escape, the colon and the identifiers of the Normal mode, and the choices
\* and the choice shortcuts of the input modes are handled before
HandedOver(key) ==
    /\ key.keyval # KEY.Escape
    /\ current_mode = NORMAL_MODE =>
            (key.keyval # KEY.colon /\ ~is_identifier(as_u8_char(key.keyval)))
    /\ current_mode \in InputModes =>
            /\ \A k \in DOMAIN shortcuts :
                    Some(k) # gdk_key_to_key(key.keyval, key.control)
            /\ \A c \in choices : Some(c) # char_from_u32(key.keyval)

\* the keys the gate lets through while the entry is shown
GateKeys ==
    {EventKey(KEY.Tab, FALSE), EventKey(KEY.ISO_Left_Tab, FALSE),
     EventKey(KEY.g, TRUE)}

----------------------------------------------------------------------------
(* Properties of the choice shortcuts *)

\* what the key press of a registered choice shortcut must do: the answer
\* bound to the key is delivered (recorded and the wait released in
\* BlockingInput mode, handed to the pending callback in Input mode), the key
\* is not appended to the buffer, and no binding is resolved or dispatched
ShortcutDelivered(key) ==
    LET bound == shortcuts[gdk_key_to_key(key.keyval, key.control)[1]]
        s == key_press(State, key, FALSE)
    IN  /\ ~s.appended
        /\ s.current_shortcut = current_shortcut
        /\ s.resolved = <<>> /\ s.dispatched = <<>> /\ s.applied = <<>>
        /\ s.mappings = mappings /\ s.settings = settings
        /\ s.current_mode = current_mode
        /\ IF current_mode = BLOCKING_INPUT_MODE
           THEN /\ s.answer = Some(bound)
                /\ s.main_loop = IF main_loop = "running" THEN "quit" ELSE main_loop
                /\ s.cb_log = cb_log
           ELSE IF input_callback # None
                THEN s.cb_log = Append(cb_log, Some(bound)) /\ s.input_callback = None
                ELSE s.cb_log = cb_log /\ s.answer = answer

\* the key events whose key is a registered choice shortcut
ShortcutKeys ==
    {key \in KeyEvents :
        /\ gdk_key_to_key(key.keyval, key.control) # None
        /\ gdk_key_to_key(key.keyval, key.control)[1] \in DOMAIN shortcuts}

----------------------------------------------------------------------------
(* Properties of the Normal mode *)

\* C32 as stated: in every reachable state in which the current mode is
\* Normal, the command identifier is the default ':' and the entry is not
\* shown, whatever the key presses, activations, dispatched commands and
\* messages, the SetMode messages of the host included.
C32_Claim ==
    current_mode = NORMAL_MODE =>
        (current_command_mode = DEFAULT_IDENTIFIER /\ ~entry_shown)

----------------------------------------------------------------------------
(* Properties of the buffer between the key presses *)

\* the buffer is empty or a strict prefix of a sequence bound in the table
\* the current mode resolves against
BufferIsPrefix ==
    \/ current_shortcut = <<>>
    \/ StrictPrefixOfBinding(mappings, LookupMode, current_shortcut)

\* the step is a key press that leaves no message to handle
KeyPressHandled ==
    /\ msgs' = <<>>
    /\ \E key \in KeyEvents, activated \in BOOLEAN : KeyPress(key, activated)

\* C33 as stated: in every state reached after a key press has been fully
\* handled the buffer is empty or a strict prefix of a sequence bound in the
\* table the active mode resolves against, and a step that changes the mode
\* or the mapping table keeps it so.
C33_Claim ==
    [][/\ KeyPressHandled => BufferIsPrefix'
       /\ (BufferIsPrefix /\ (current_mode' # current_mode \/ mappings' # mappings))
            => BufferIsPrefix']_vars

----------------------------------------------------------------------------
(* Properties of the entry into the Command mode *)

COLON_KEY == EventKey(KEY.colon, FALSE)

\* the key events of the special-command identifiers
IdentifierKeys ==
    {key \in KeyEvents :
        /\ key.keyval # KEY.colon /\ key.keyval # KEY.Escape
        /\ is_identifier(as_u8_char(key.keyval))}

\* s is in Command mode with the identifier, the entry shown, the message
\* cleared and the buffer empty; nothing was appended, resolved or dispatched
\* on the way and the mapping table is as before
EnteredCommand(s, identifier) ==
    /\ s.current_mode = COMMAND_MODE
    /\ s.current_command_mode = identifier
    /\ s.entry_shown
    /\ s.message = ""
    /\ s.current_shortcut = <<>>
    /\ ~s.appended
    /\ s.resolved = <<>> /\ s.dispatched = <<>> /\ s.applied = <<>>
    /\ s.mappings = mappings

\* C34: in Normal mode a colon key press returns EnterCommandMode and changes
\* nothing else, and the handling of the message gives the Command mode with
\* the identifier ':', the entry and the completion view shown, the message
\* cleared and the buffer empty; the key of a special-command identifier c
\* gives the Command mode with the identifier c, the entry shown, the
\* completion view hidden and the buffer empty. Neither key is appended to
\* the buffer, and no binding of the Normal mode table is resolved for it.
C34_EnterCommandMode ==
    /\ (started /\ current_mode = NORMAL_MODE) =>
        /\ key_press(State, COLON_KEY, FALSE) = emit(State, EnterCommandMode)
        /\ LET s == update(State, EnterCommandMode)
           IN  EnteredCommand(s, DEFAULT_IDENTIFIER) /\ s.completion_shown
        /\ \A key \in IdentifierKeys :
            LET s == key_press(State, key, FALSE)
            IN  /\ EnteredCommand(s, as_u8_char(key.keyval))
                /\ ~s.completion_shown
                /\ s.msgs = msgs
    /\ (msgs # <<>> /\ Head(msgs) = EnterCommandMode) =>
        LET s == update([State EXCEPT !.msgs = Tail(msgs)], Head(msgs))
        IN  EnteredCommand(s, DEFAULT_IDENTIFIER) /\ s.completion_shown

\* the key '/', which the Normal mode table binds, was pressed in Normal mode:
\* the entry of the special command is open and the buffer is empty
C34_Witness ==
    /\ current_mode = COMMAND_MODE
    /\ current_command_mode = "/"
    /\ entry_shown /\ ~completion_shown
    /\ current_shortcut = <<>>
    /\ <<K_slash>> \in DOMAIN mappings[NORMAL_MODE]
    /\ <<K_colon>> \in DOMAIN mappings[NORMAL_MODE]
    /\ msgs = <<>>

----------------------------------------------------------------------------
(* Properties of the Incomplete shortcuts *)

\* the handler resolved a binding whose action is an Incomplete command
ResolvedIncomplete(s) ==
    /\ s.resolved # <<>>
    /\ action_to_command(s.resolved[1]).kind = "Incomplete"

\* the text the entry is filled with for the command text
Prefilled(text) ==
    IF " " \in Range(text) THEN text ELSE Append(text, " ")

\* the resolution of an Incomplete binding dispatches nothing: the buffer is
\* cleared, the mode is Command, the entry is shown with the text of the
\* command, and the mapping table and the settings are as before
EntryPrefilled(s) ==
    /\ s.dispatched = <<>> /\ s.applied = <<>> /\ s.changed = <<>>
    /\ s.current_shortcut = <<>>
    /\ s.current_mode = COMMAND_MODE
    /\ s.entry_shown
    /\ s.input = Some(Prefilled(action_to_command(s.resolved[1]).text))
    /\ s.mappings = mappings
    /\ s.settings = settings

\* the state the next event finds after the handler: what the handler did is
\* not kept
AfterHandler(s) ==
    [s EXCEPT !.appended = FALSE, !.resolved = <<>>, !.dispatched = <<>>,
              !.applied = <<>>, !.errors = <<>>, !.changed = <<>>,
              !.input = None]

\* the command lines a user completes the entry to and activates
CompletedLines == {input \in ActivateInputs : input # None /\ input[1] # <<>>}

\* the activation of the entry dispatches the commands of the line, each once,
\* and returns to Normal mode
ActivationRuns(s, input) ==
    LET a == command_activate(AfterHandler(s), input)
    IN  /\ a.applied = parse_line(input[1]).commands
        /\ a.current_mode = NORMAL_MODE

\* C35 as stated: resolving a binding whose action is Incomplete(text)
\* dispatches no command: it clears the buffer, sets the mode to Command and
\* shows the entry filled with text (with one space appended when text has no
\* space), and leaves the mapping table and the settings unchanged; the
\* command runs on a later activation of the entry, which dispatches it once
\* and returns to Normal mode.
C35_Claim ==
    started =>
        \A key \in KeyEvents :
            LET s == key_press(State, key, FALSE)
            IN  ResolvedIncomplete(s) =>
                    /\ EntryPrefilled(s)
                    /\ \A input \in CompletedLines : ActivationRuns(s, input)

====
